---- MODULE Spec2Model ----
(***************************************************************************)
(* Needleman-Wunsch global edit distance: the four engines of              *)
(* src/src/Needleman-Wunsch-recmemo.c (memoized recursion, iterative row,  *)
(* cache-aware blocks, cache-oblivious bisection) as a state machine.      *)
(* A caller holds two sequences A and B and calls one engine on them.      *)
(* C arrays are 0-based; a C index k of a sequence is element k+1 here.    *)
(* A value returned by an engine is a C long, held as [base, off] (see     *)
(* Long).                                                                  *)
(***************************************************************************)
EXTENDS Integers, Sequences, FiniteSets

VARIABLES A, B, pc, engine, param, res, hooks, acc, col, Nrem

vars == <<A, B, pc, engine, param, res, hooks, acc, col, Nrem>>

(***************************************************************************)
(* Bounds of the model.                                                    *)
(***************************************************************************)
MaxLen == 3
MaxTotalRec == 5
MaxTotalAware == 6
MaxLenLive == 1
MaxBlock == 3
MaxSeuil == 3

\* The characters of the sequences: two known bases, the unknown base, and
\* one character that is no base.
Chars == {"A", "C", "N", "-"}

RECURSIVE SeqsUpTo(_)
SeqsUpTo(n) ==
    IF n = 0 THEN {<<>>}
    ELSE LET S == SeqsUpTo(n - 1)
         IN  S \cup {Append(s, ch) : s \in {t \in S : Len(t) = n - 1}, ch \in Chars}

Inputs == SeqsUpTo(MaxLen)

(***************************************************************************)
(* Program constants.                                                      *)
(***************************************************************************)
SUBSTITUTION_COST == 1
SUBSTITUTION_UNKNOWN_COST == 1
INSERTION_COST == 2
NOT_YET_COMPUTED == -1
SizeofLong == 8

(***************************************************************************)
(* The C type long, 64 bits in two's complement. The memoized, the         *)
(* iterative and the cache-aware engine only hold sums of costs; the       *)
(* cache-oblivious engine also holds values read past the end of tab,      *)
(* which may be any long. A long is held as [base, off], the long          *)
(* anchor(base) + off:                                                     *)
(*   base 0          anchor 0: the long is the integer off;                *)
(*   base MaxAnchor  anchor LONG_MAX (off <= 0);                           *)
(*   base MinAnchor  anchor LONG_MIN (off >= 0);                           *)
(*   base r or -r, r in 1..MaxReads: an anchor that is not fixed. It       *)
(*     stands for every long that keeps the anchors in the order of their  *)
(*     bases, MinAnchor < -MaxReads < .. < -1 < 0 < 1 < .. < MaxAnchor,    *)
(*     and further apart than the offsets in use plus MaxCost.             *)
(* An engine adds costs to longs and compares longs, and one call adds up  *)
(* at most MaxCost. Two longs of one anchor compare as their offsets do;   *)
(* two longs of different anchors compare as the anchors do, for every     *)
(* long the anchors stand for. So a call run on [base r, off] does what    *)
(* the code does on each of these longs, and returns anchor + off' where   *)
(* the code returns that long + (off' - off).                              *)
(***************************************************************************)
\* The most one call adds to a value: INSERTION_COST per character of X and
\* of Y.
MaxCost == 4 * MaxLen

\* The most reads past the end of tab whose value one call uses again: one per
\* leaf but the first and the last.
MaxReads == MaxLen - 2

MaxAnchor == MaxReads + 1
MinAnchor == -(MaxReads + 1)

\* The long of an integer n.
Long(n) == [base |-> 0, off |-> n]

\* v + k for a cost 0 <= k. A sum above LONG_MAX is undefined in C; it wraps
\* around to LONG_MIN, as the 64-bit addition does.
LongAdd(v, k) ==
    IF v.base = MaxAnchor /\ v.off + k > 0
    THEN [base |-> MinAnchor, off |-> (v.off + k) - 1]
    ELSE [base |-> v.base, off |-> v.off + k]

\* v < w
LongLess(v, w) == v.base < w.base \/ (v.base = w.base /\ v.off < w.off)

\* The longs that may lie in the stack past the end of tab: every long. Those
\* within Window of 0, of LONG_MAX and of LONG_MIN one by one; every other
\* long through the anchors that are not fixed, the least long read at such an
\* anchor being the anchor itself.
Window == (MaxReads + 1) * MaxCost

Garbage ==
    {[base |-> 0, off |-> o] : o \in (-Window)..Window}
    \cup {[base |-> MaxAnchor, off |-> -o] : o \in 0..Window}
    \cup {[base |-> MinAnchor, off |-> o] : o \in 0..Window}
    \cup {[base |-> r, off |-> o] : r \in ((-MaxReads)..MaxReads) \ {0},
                                   o \in 0..((MaxReads - 1) * MaxCost)}

(***************************************************************************)
(* The base classifier (characters_to_base.h), an external collaborator.   *)
(***************************************************************************)
\* The canonical symbol of a character; "none" for a character that is no base.
BaseOf(ch) ==
    CASE ch = "A" -> "A"
      [] ch = "C" -> "C"
      [] ch = "N" -> "unknown"
      [] OTHER    -> "none"

isBase(ch) == BaseOf(ch) # "none"

isUnknownBase(ch) == BaseOf(ch) = "unknown"

isSameBase(c1, c2) == BaseOf(c1) = BaseOf(c2)

\* A C truth value used as an integer.
BoolToInt(b) == IF b THEN 1 ELSE 0

(***************************************************************************)
(* Orientation: X is the longer sequence, Y the shorter; on equal lengths  *)
(* X is the first argument.                                                *)
(***************************************************************************)
CtxX(a, b) == IF Len(a) >= Len(b) THEN a ELSE b
CtxY(a, b) == IF Len(a) >= Len(b) THEN b ELSE a

\* What lies in memory after the last character of a sequence: some
\* character, or nothing that can be read.
Unreadable == "unreadable"
After == Chars \cup {Unreadable}

\* seq[k] of the C code. An index that is not below the length reads past the
\* sequence: the value is whatever lies there, oob.
CharAt(seq, k, oob) == IF k >= 0 /\ k < Len(seq) THEN seq[k + 1] ELSE oob

\* One access of an array: its name, the index used, the length allocated.
Access(name, k, len) == <<name, k, len>>

(***************************************************************************)
(* Memoized recursive engine.                                              *)
(***************************************************************************)
\* The memoization context, with the hook calls and the array accesses made
\* so far, what lies after X and after Y, and whether a read has killed the
\* process.
NewContext(a, b, afterX, afterY) ==
    LET X == CtxX(a, b)
        Y == CtxY(a, b)
    IN  [X |-> X, Y |-> Y, M |-> Len(X), N |-> Len(Y),
         afterX |-> afterX, afterY |-> afterY,
         memo |-> [i \in 0..Len(X) |-> [j \in 0..Len(Y) |-> NOT_YET_COMPUTED]],
         hooks |-> <<>>, acc |-> {}, killed |-> FALSE]

IsComputedMut(c, i, j) == FALSE

IsComputed(c, i, j) == c.memo[i][j] # NOT_YET_COMPUTED

SubstitutionCost(Xi, Yj) ==
    IF isUnknownBase(Xi) THEN SUBSTITUTION_UNKNOWN_COST
    ELSE IF isSameBase(Xi, Yj) THEN 0 ELSE SUBSTITUTION_COST

\* c->memo[i][j] = res; not reached when the process was killed below.
Store(c, i, j, r) == IF c.killed THEN c ELSE [c EXCEPT !.memo[i][j] = r]

\* ManageBaseError(ch), called while (i, j) is evaluated.
ManageBaseError(c, axis, i, j, ch) ==
    [c EXCEPT !.hooks = Append(@, [axis |-> axis, i |-> i, j |-> j, ch |-> ch])]

\* c->memo[i][j]
MemoAccess(c, i, j) ==
    [c EXCEPT !.acc = @ \cup {Access("memo", i, c.M + 1), Access("memo[i]", j, c.N + 1)}]

\* char Xi = c->X[i]: the read of X[M], past the sequence, kills the process
\* when nothing can be read there.
ReadX(c, i) ==
    [c EXCEPT !.acc = @ \cup {Access("X", i, c.M)},
              !.killed = (i = c.M /\ c.afterX = Unreadable)]

\* char Yj = c->Y[j]
ReadY(c, j) ==
    [c EXCEPT !.acc = @ \cup {Access("Y", j, c.N)},
              !.killed = (j = c.N /\ c.afterY = Unreadable)]

\* The context after the call of EditDistance_NW_RecMemo(c, i, j).
RECURSIVE EditDistance_NW_RecMemo(_, _, _)
EditDistance_NW_RecMemo(c0, i, j) ==
    IF c0.killed THEN c0
    ELSE IF IsComputed(c0, i, j) THEN MemoAccess(c0, i, j)
    ELSE
      LET cx == ReadX(MemoAccess(c0, i, j), i)
          c  == IF cx.killed THEN cx ELSE ReadY(cx, j)
          Xi == CharAt(c.X, i, c.afterX)
          Yj == CharAt(c.Y, j, c.afterY)
      IN
      IF c.killed THEN c
      ELSE IF i = c.M THEN
          IF j = c.N THEN Store(c, i, j, 0)
          ELSE LET r == EditDistance_NW_RecMemo(c, i, j + 1)
               IN  Store(r, i, j, (IF isBase(Yj) THEN INSERTION_COST ELSE 0) + r.memo[i][j + 1])
      ELSE IF j = c.N THEN
          LET r == EditDistance_NW_RecMemo(c, i + 1, j)
          IN  Store(r, i, j, (IF isBase(Xi) THEN INSERTION_COST ELSE 0) + r.memo[i + 1][j])
      ELSE IF ~isBase(Xi) THEN
          LET r == EditDistance_NW_RecMemo(ManageBaseError(c, "X", i, j, Xi), i + 1, j)
          IN  Store(r, i, j, r.memo[i + 1][j])
      ELSE IF ~isBase(Yj) THEN
          LET r == EditDistance_NW_RecMemo(ManageBaseError(c, "Y", i, j, Yj), i, j + 1)
          IN  Store(r, i, j, r.memo[i][j + 1])
      ELSE
          LET r1   == EditDistance_NW_RecMemo(c, i + 1, j + 1)
              min1 == SubstitutionCost(Xi, Yj) + r1.memo[i + 1][j + 1]
              r2   == EditDistance_NW_RecMemo(r1, i + 1, j)
              cas2 == INSERTION_COST + r2.memo[i + 1][j]
              min2 == IF cas2 < min1 THEN cas2 ELSE min1
              r3   == EditDistance_NW_RecMemo(r2, i, j + 1)
              cas3 == INSERTION_COST + r3.memo[i][j + 1]
              min3 == IF cas3 < min2 THEN cas3 ELSE min2
          IN  Store(r3, i, j, min3)

\* The context after the call; the value returned is memo[0][0], when the
\* process was not killed.
EditDistance_NW_Rec(a, b, afterX, afterY) ==
    EditDistance_NW_RecMemo(NewContext(a, b, afterX, afterY), 0, 0)

(***************************************************************************)
(* The update of one cell tab[j] of the working row, with its carry        *)
(* prev_value: the same statements in the iterative and the cache-aware    *)
(* engine.                                                                 *)
(* s = [tab, prev]; Xc = X[M - i], Yc the character of Y of column j.      *)
(***************************************************************************)
CellUpdate(s, j, Xc, Yc) ==
    IF ~isBase(Yc) THEN
        [tab |-> [s.tab EXCEPT ![j] = s.tab[j - 1]], prev |-> s.tab[j]]
    ELSE IF ~isBase(Xc) THEN
        [tab |-> s.tab, prev |-> s.tab[j]]
    ELSE
        LET min   == (IF s.tab[j] < s.tab[j - 1] THEN s.tab[j] ELSE s.tab[j - 1])
                     + INSERTION_COST
            delta == BoolToInt(~isSameBase(Xc, Yc)) + s.prev
        IN  [tab |-> [s.tab EXCEPT ![j] = IF min < delta THEN min ELSE delta],
             prev |-> s.tab[j]]

(***************************************************************************)
(* Iterative row engine.                                                   *)
(***************************************************************************)
\* for (j = 1; j < N + 1; j++) tab[j] = tab[j - 1] + isBase(Y[N - j]) * 2
RECURSIVE IterInitLoop(_, _, _)
IterInitLoop(tab, j, Y) ==
    IF j < Len(Y) + 1
    THEN IterInitLoop([tab EXCEPT ![j] = tab[j - 1]
                          + BoolToInt(isBase(Y[(Len(Y) - j) + 1])) * 2], j + 1, Y)
    ELSE tab

\* for (j = 1; j < N + 1; j++) { ... } of row i
RECURSIVE IterInnerLoop(_, _, _, _)
IterInnerLoop(s, j, Xc, Y) ==
    IF j < Len(Y) + 1
    THEN IterInnerLoop(CellUpdate(s, j, Xc, Y[(Len(Y) - j) + 1]), j + 1, Xc, Y)
    ELSE s

\* for (i = 1; i < M + 1; i++) { ... }
RECURSIVE IterOuterLoop(_, _, _, _)
IterOuterLoop(tab, i, X, Y) ==
    IF i < Len(X) + 1
    THEN LET Xc == X[(Len(X) - i) + 1]
             s0 == [tab |-> [tab EXCEPT ![0] = tab[0] + 2 * BoolToInt(isBase(Xc))],
                    prev |-> tab[0]]
         IN  IterOuterLoop(IterInnerLoop(s0, 1, Xc, Y).tab, i + 1, X, Y)
    ELSE tab

EditDistance_NW_iteratif(a, b) ==
    LET X == CtxX(a, b)
        Y == CtxY(a, b)
        tab0 == [j \in 0..Len(Y) |-> 0]
    IN  IterOuterLoop(IterInitLoop(tab0, 1, Y), 1, X, Y)[Len(Y)]

\* The array accesses of the iterative engine: tab has N + 1 entries.
IteratifAccesses(a, b) ==
    LET M == Len(CtxX(a, b))
        N == Len(CtxY(a, b))
    IN  {Access("tab", 0, N + 1), Access("tab", N, N + 1)}
        \cup {Access("tab", j, N + 1) : j \in 1..N}
        \cup {Access("tab", j - 1, N + 1) : j \in 1..N}
        \cup {Access("Y", N - j, N) : j \in 1..N}
        \cup {Access("X", M - i, M) : i \in 1..M}

(***************************************************************************)
(* The boundary array col of the cache-aware and cache-oblivious engines.  *)
(***************************************************************************)
\* col[0] = 0; for (i = 1; i < M + 1; i++) col[i] = col[i - 1] + isBase(X[M - i]) * 2
RECURSIVE InitColLoop(_, _, _)
InitColLoop(c, i, X) ==
    IF i < Len(X) + 1
    THEN InitColLoop([c EXCEPT ![i] = c[i - 1]
                         + BoolToInt(isBase(X[(Len(X) - i) + 1])) * 2], i + 1, X)
    ELSE c

InitCol(X) == InitColLoop([i \in 0..Len(X) |-> 0], 1, X)

(***************************************************************************)
(* Cache-aware tiled engine: one pass of the while loop per block.         *)
(***************************************************************************)
\* int nb_case = (int)Z / (5 * sizeof(long))
NbCase(Z) == Z \div (5 * SizeofLong)

\* bordure = (N < nb_case) ? N : nb_case
Bordure(N, nb) == IF N < nb THEN N ELSE nb

\* for (j = 1; j < bordure + 1; j++) tab[j] = tab[j - 1] + isBase(Y[N - j]) * 2
RECURSIVE AwareInitLoop(_, _, _, _, _)
AwareInitLoop(tab, j, bordure, N, Y) ==
    IF j < bordure + 1
    THEN AwareInitLoop([tab EXCEPT ![j] = tab[j - 1]
                           + BoolToInt(isBase(Y[(N - j) + 1])) * 2], j + 1, bordure, N, Y)
    ELSE tab

RECURSIVE AwareInnerLoop(_, _, _, _, _, _)
AwareInnerLoop(s, j, bordure, Xc, N, Y) ==
    IF j < bordure + 1
    THEN AwareInnerLoop(CellUpdate(s, j, Xc, Y[(N - j) + 1]), j + 1, bordure, Xc, N, Y)
    ELSE s

\* The seed of row i of a block: prev_value = tab[0]; tab[0] = col[i]
AwareRowSeedMut(tab, c, i) ==
    [tab |-> [tab EXCEPT ![0] = c[i]], prev |-> c[i]]

AwareRowSeed(tab, c, i) ==
    [tab |-> [tab EXCEPT ![0] = c[i]], prev |-> tab[0]]

\* for (i = 1; i < M + 1; i++) { ...; col[i] = tab[bordure]; }
\* s = [tab, col]
RECURSIVE AwareOuterLoop(_, _, _, _, _, _)
AwareOuterLoop(s, i, bordure, X, N, Y) ==
    IF i < Len(X) + 1
    THEN LET r == AwareInnerLoop(AwareRowSeed(s.tab, s.col, i), 1, bordure,
                                 X[(Len(X) - i) + 1], N, Y)
         IN  AwareOuterLoop([tab |-> r.tab, col |-> [s.col EXCEPT ![i] = r.tab[bordure]]],
                            i + 1, bordure, X, N, Y)
    ELSE s

\* The body of while (N > 0), up to N = N - nb_case: the new col.
AwareBlock(c, N, nb, X, Y) ==
    LET bordure == Bordure(N, nb)
        tab0 == AwareInitLoop([j \in 0..nb |-> IF j = 0 THEN c[0] ELSE 0], 1, bordure, N, Y)
        c0   == [c EXCEPT ![0] = tab0[bordure]]
    IN  AwareOuterLoop([tab |-> tab0, col |-> c0], 1, bordure, X, N, Y).col

\* The array accesses of one block: tab has nb_case + 1 entries, col M + 1.
\* X[M - i] is read only for a column whose character of Y is a base.
AwareBlockAccesses(N, nb, X, Y) ==
    LET bordure == Bordure(N, nb)
        M       == Len(X)
    IN  {Access("tab", 0, nb + 1), Access("tab", bordure, nb + 1), Access("col", 0, M + 1)}
        \cup {Access("tab", j, nb + 1) : j \in 1..bordure}
        \cup {Access("tab", j - 1, nb + 1) : j \in 1..bordure}
        \cup {Access("Y", N - j, Len(Y)) : j \in 1..bordure}
        \cup (IF \E j \in 1..bordure : isBase(Y[(N - j) + 1])
              THEN {Access("X", M - i, M) : i \in 1..M} ELSE {})
        \cup {Access("col", i, M + 1) : i \in 1..M}

\* The whole call for a block width of at least 1 (the loop then ends).
RECURSIVE AwareWhile(_, _, _, _, _)
AwareWhile(c, N, nb, X, Y) ==
    IF N > 0 THEN AwareWhile(AwareBlock(c, N, nb, X, Y), N - nb, nb, X, Y) ELSE c

EditDistance_NW_cache_aware(a, b, Z) ==
    LET X == CtxX(a, b)
        Y == CtxY(a, b)
    IN  AwareWhile(InitCol(X), Len(Y), NbCase(Z), X, Y)[Len(X)]

(***************************************************************************)
(* Cache-oblivious engine, on longs [base, off]. past gives, for the leaf  *)
(* starting at debut_seq, the long that lies in the stack where its read   *)
(* of tab past the end falls.                                              *)
(***************************************************************************)
\* for (j = 1; j < taille + 1; j++) tab[j] = tab[j - 1] + isBase(Y[N - j - debut_seq]) * 2
RECURSIVE ObliviousInitLoop(_, _, _, _, _)
ObliviousInitLoop(tab, j, taille, Y, debut_seq) ==
    IF j < taille + 1
    THEN ObliviousInitLoop([tab EXCEPT ![j] = LongAdd(tab[j - 1],
            BoolToInt(isBase(Y[(Len(Y) - j - debut_seq) + 1])) * 2)],
            j + 1, taille, Y, debut_seq)
    ELSE tab

\* The update of tab[j] and prev_value in a leaf; s = [tab, prev].
ObliviousCellUpdate(s, j, Xc, Yc) ==
    IF ~isBase(Yc) THEN
        [tab |-> [s.tab EXCEPT ![j] = s.tab[j - 1]], prev |-> s.tab[j]]
    ELSE IF ~isBase(Xc) THEN
        [tab |-> s.tab, prev |-> s.tab[j]]
    ELSE
        LET min   == LongAdd(IF LongLess(s.tab[j], s.tab[j - 1])
                             THEN s.tab[j] ELSE s.tab[j - 1], INSERTION_COST)
            delta == LongAdd(s.prev, BoolToInt(~isSameBase(Xc, Yc)))
        IN  [tab |-> [s.tab EXCEPT ![j] = IF LongLess(min, delta) THEN min ELSE delta],
             prev |-> s.tab[j]]

RECURSIVE ObliviousInnerLoop(_, _, _, _, _, _)
ObliviousInnerLoop(s, j, taille, Xc, Y, debut_seq) ==
    IF j < taille + 1
    THEN ObliviousInnerLoop(ObliviousCellUpdate(s, j, Xc, Y[(Len(Y) - j - debut_seq) + 1]),
                            j + 1, taille, Xc, Y, debut_seq)
    ELSE s

RECURSIVE ObliviousOuterLoop(_, _, _, _, _, _)
ObliviousOuterLoop(s, i, taille, X, Y, debut_seq) ==
    IF i < Len(X) + 1
    THEN LET r == ObliviousInnerLoop([tab |-> [s.tab EXCEPT ![0] = s.col[i]],
                                      prev |-> s.tab[0]],
                                     1, taille, X[(Len(X) - i) + 1], Y, debut_seq)
         IN  ObliviousOuterLoop([tab |-> r.tab, col |-> [s.col EXCEPT ![i] = r.tab[taille]]],
                                i + 1, taille, X, Y, debut_seq)
    ELSE s

\* tab[k] of the leaf starting at debut_seq, whose tab has taille + 1 entries:
\* an index above taille reads past the array, the long past[debut_seq].
TabRead(tab, k, taille, past, debut_seq) ==
    IF k >= 0 /\ k <= taille THEN tab[k] ELSE past[debut_seq]

\* The else branch of cache_oblivious_helper: the sub-range is evaluated;
\* the new col.
ObliviousLeaf(c, X, Y, debut_seq, fin_seq, past) ==
    LET taille == fin_seq - debut_seq
        tab0   == ObliviousInitLoop([j \in 0..taille |-> IF j = 0 THEN c[0] ELSE Long(0)],
                                    1, taille, Y, debut_seq)
        c0     == [c EXCEPT ![0] = TabRead(tab0, fin_seq, taille, past, debut_seq)]
    IN  ObliviousOuterLoop([tab |-> tab0, col |-> c0], 1, taille, X, Y, debut_seq).col

\* The array accesses of one leaf: tab has taille + 1 entries, col M + 1.
\* X[M - i] is read only for a column whose character of Y is a base.
ObliviousLeafAccesses(X, Y, debut_seq, fin_seq) ==
    LET taille == fin_seq - debut_seq
        M      == Len(X)
        N      == Len(Y)
    IN  {Access("tab", 0, taille + 1), Access("tab", fin_seq, taille + 1),
         Access("tab", taille, taille + 1), Access("col", 0, M + 1)}
        \cup {Access("tab", j, taille + 1) : j \in 1..taille}
        \cup {Access("tab", j - 1, taille + 1) : j \in 1..taille}
        \cup {Access("Y", N - j - debut_seq, N) : j \in 1..taille}
        \cup (IF \E j \in 1..taille : isBase(Y[(N - j - debut_seq) + 1])
              THEN {Access("X", M - i, M) : i \in 1..M} ELSE {})
        \cup {Access("col", i, M + 1) : i \in 1..M}

\* col after the call of the helper on the sub-range debut_seq..fin_seq.
RECURSIVE cache_oblivious_helper(_, _, _, _, _, _, _)
cache_oblivious_helper(c, X, Y, seuil, debut_seq, fin_seq, past) ==
    LET taille == fin_seq - debut_seq
    IN  IF taille > seuil
        THEN LET milieu == (taille \div 2) + debut_seq
                 l == cache_oblivious_helper(c, X, Y, seuil, debut_seq, milieu, past)
             IN  cache_oblivious_helper(l, X, Y, seuil, milieu, fin_seq, past)
        ELSE ObliviousLeaf(c, X, Y, debut_seq, fin_seq, past)

\* The leaves of the call of the helper on debut_seq..fin_seq, as pairs
\* <<debut_seq, fin_seq>>.
RECURSIVE Leaves(_, _, _)
Leaves(seuil, debut_seq, fin_seq) ==
    LET taille == fin_seq - debut_seq
    IN  IF taille > seuil
        THEN LET milieu == (taille \div 2) + debut_seq
             IN  Leaves(seuil, debut_seq, milieu) \cup Leaves(seuil, milieu, fin_seq)
        ELSE {<<debut_seq, fin_seq>>}

\* The value returned, col[M].
EditDistance_NW_cache_oblivious(a, b, seuil, past) ==
    LET X == CtxX(a, b)
        Y == CtxY(a, b)
        c == InitCol(X)
    IN  cache_oblivious_helper([i \in 0..Len(X) |-> Long(c[i])],
                               X, Y, seuil, 0, Len(Y), past)[Len(X)]

\* The array accesses of the call.
ObliviousAccesses(a, b, seuil) ==
    LET X == CtxX(a, b)
        Y == CtxY(a, b)
        M == Len(X)
    IN  {Access("col", i, M + 1) : i \in 0..M}
        \cup {Access("X", M - i, M) : i \in 1..M}
        \cup UNION {ObliviousLeafAccesses(X, Y, l[1], l[2]) : l \in Leaves(seuil, 0, Len(Y))}

\* The leaves whose read of tab falls past the end: those with debut_seq > 0.
ReadsPastTab(a, b, seuil) == {l[1] : l \in Leaves(seuil, 0, Len(CtxY(a, b)))} \ {0}

\* The stack contents a call may be run on: a long for the read past tab of
\* each such leaf. The long that the last leaf reads is stored in col[0] and
\* nothing reads col[0] after it (the value returned is col[M], M > 0): every
\* long there gives the same result, and Long(0) stands for all of them.
GarbageMaps(a, b, seuil) ==
    LET reads == ReadsPastTab(a, b, seuil)
        last  == CHOOSE d \in reads : \A e \in reads : e <= d
    IN  {[d \in reads |-> IF d = last THEN Long(0) ELSE p[d]] :
            p \in [{d \in reads : d # last} -> Garbage]}

(***************************************************************************)
(* The state machine: the caller holds A and B and calls one engine.       *)
(***************************************************************************)
\* The cache budgets Z a caller passes: one below 5 * sizeof(long), and
\* budgets that give block widths 1..MaxBlock.
Budgets == {SizeofLong} \cup {(5 * SizeofLong + 1) * k : k \in 1..MaxBlock}

Thresholds == 1..MaxSeuil

Init ==
    /\ A \in Inputs
    /\ B \in Inputs
    /\ pc = "idle"
    /\ engine = "none"
    /\ param = 0
    /\ res = Long(0)
    /\ hooks = <<>>
    /\ acc = {}
    /\ col = <<>>
    /\ Nrem = 0

\* The call returns memo[0][0], or the process is killed at the first read
\* past a sequence after which nothing can be read.
CallRec ==
    /\ pc = "idle"
    /\ \E afterX \in After, afterY \in After :
         \E c \in {EditDistance_NW_Rec(A, B, afterX, afterY)} :
           /\ pc' = IF c.killed THEN "killed" ELSE "done"
           /\ res' = IF c.killed THEN res ELSE Long(c.memo[0][0])
           /\ hooks' = c.hooks
           /\ acc' = c.acc
    /\ engine' = "rec"
    /\ UNCHANGED <<A, B, param, col, Nrem>>

CallIteratif ==
    /\ pc = "idle"
    /\ res' = Long(EditDistance_NW_iteratif(A, B))
    /\ acc' = IteratifAccesses(A, B)
    /\ pc' = "done"
    /\ engine' = "iter"
    /\ UNCHANGED <<A, B, param, hooks, col, Nrem>>

\* EditDistance_NW_cache_aware up to the first test of while (N > 0)
CallCacheAware ==
    /\ pc = "idle"
    /\ \E Z \in Budgets : param' = Z
    /\ col' = InitCol(CtxX(A, B))
    /\ Nrem' = Len(CtxY(A, B))
    /\ acc' = {Access("tab", 0, NbCase(param') + 1)}
              \cup {Access("col", i, Len(CtxX(A, B)) + 1) : i \in 0..Len(CtxX(A, B))}
              \cup {Access("X", Len(CtxX(A, B)) - i, Len(CtxX(A, B))) : i \in 1..Len(CtxX(A, B))}
    /\ pc' = "aware_while"
    /\ engine' = "aware"
    /\ UNCHANGED <<A, B, res, hooks>>

\* while (N > 0): the test succeeds
AwareEnter ==
    /\ pc = "aware_while"
    /\ Nrem > 0
    /\ pc' = "aware_body"
    /\ UNCHANGED <<A, B, engine, param, res, hooks, acc, col, Nrem>>

\* the body of the while loop, one block
AwareBody ==
    /\ pc = "aware_body"
    /\ col' = AwareBlock(col, Nrem, NbCase(param), CtxX(A, B), CtxY(A, B))
    /\ Nrem' = Nrem - NbCase(param)
    /\ acc' = acc \cup AwareBlockAccesses(Nrem, NbCase(param), CtxX(A, B), CtxY(A, B))
    /\ pc' = "aware_while"
    /\ UNCHANGED <<A, B, engine, param, res, hooks>>

\* while (N > 0): the test fails; return col[M]
AwareReturn ==
    /\ pc = "aware_while"
    /\ ~(Nrem > 0)
    /\ res' = Long(col[Len(CtxX(A, B))])
    /\ acc' = acc \cup {Access("col", Len(CtxX(A, B)), Len(CtxX(A, B)) + 1)}
    /\ pc' = "done"
    /\ UNCHANGED <<A, B, engine, param, hooks, col, Nrem>>

CallCacheOblivious ==
    /\ pc = "idle"
    /\ \E seuil \in Thresholds :
         /\ param' = seuil
         /\ acc' = ObliviousAccesses(A, B, seuil)
         /\ \E past \in GarbageMaps(A, B, seuil) :
              res' = EditDistance_NW_cache_oblivious(A, B, seuil, past)
    /\ pc' = "done"
    /\ engine' = "obliv"
    /\ UNCHANGED <<A, B, hooks, col, Nrem>>

Next ==
    \/ CallRec
    \/ CallIteratif
    \/ CallCacheAware
    \/ AwareEnter
    \/ AwareBody
    \/ AwareReturn
    \/ CallCacheOblivious

Spec == Init /\ [][Next]_vars

\* Short sequences; nothing makes the caller call, and a call that was made
\* runs on as long as it can take a step.
InitLive == Init /\ Len(A) <= MaxLenLive /\ Len(B) <= MaxLenLive

FairSpec == InitLive /\ [][Next]_vars /\ WF_vars(AwareEnter \/ AwareBody \/ AwareReturn)

\* The memoized engine alone, on sequences of MaxTotalRec characters together.
InitRec == Init /\ Len(A) + Len(B) <= MaxTotalRec

NextRec == CallRec

SpecRec == InitRec /\ [][NextRec]_vars

\* The cache-aware engine alone, on sequences of MaxTotalAware characters
\* together.
InitAware == Init /\ Len(A) + Len(B) <= MaxTotalAware

NextAware ==
    \/ CallCacheAware
    \/ AwareEnter
    \/ AwareBody
    \/ AwareReturn

SpecAware == InitAware /\ [][NextAware]_vars

(***************************************************************************)
(* Notions the properties are stated with.                                 *)
(***************************************************************************)
Done(e) == pc = "done" /\ engine = e

\* The recurrence phi of the design, on X (longer) and Y (shorter), stated on
\* the characters themselves: A and C are known bases, N the unknown base.
KnownBases == {"A", "C"}
ValidBases == KnownBases \cup {"N"}

PhiSubCost(x, y) ==
    IF x \in KnownBases /\ x = y THEN 0
    ELSE IF x = "N" \/ y = "N" THEN 1
    ELSE 1

Min3(p, q, r) ==
    LET m == IF p < q THEN p ELSE q
    IN  IF m < r THEN m ELSE r

RECURSIVE Phi(_, _, _, _)
Phi(X, Y, i, j) ==
    IF i = Len(X) /\ j = Len(Y) THEN 0
    ELSE IF i = Len(X) THEN (IF Y[j + 1] \in ValidBases THEN 2 ELSE 0) + Phi(X, Y, i, j + 1)
    ELSE IF j = Len(Y) THEN (IF X[i + 1] \in ValidBases THEN 2 ELSE 0) + Phi(X, Y, i + 1, j)
    ELSE IF X[i + 1] \notin ValidBases THEN Phi(X, Y, i + 1, j)
    ELSE IF Y[j + 1] \notin ValidBases THEN Phi(X, Y, i, j + 1)
    ELSE Min3(PhiSubCost(X[i + 1], Y[j + 1]) + Phi(X, Y, i + 1, j + 1),
              2 + Phi(X, Y, i + 1, j),
              2 + Phi(X, Y, i, j + 1))

Longer(a, b) == IF Len(a) >= Len(b) THEN a ELSE b
Shorter(a, b) == IF Len(a) >= Len(b) THEN b ELSE a

\* The values an engine may return on (a, b) with tuning parameter t: none
\* when the call does not return. The memoized engine returns the same value
\* whatever it reads after the sequences, and none when that read kills it.
EngineValues(e, a, b, t) ==
    CASE e = "rec"   -> {Long(EditDistance_NW_Rec(a, b, oob, oob).memo[0][0]) : oob \in Chars}
      [] e = "iter"  -> {Long(EditDistance_NW_iteratif(a, b))}
      [] e = "aware" -> IF NbCase(t) < 1 /\ Len(Shorter(a, b)) > 0 THEN {}
                        ELSE {Long(EditDistance_NW_cache_aware(a, b, t))}
      [] e = "obliv" -> {EditDistance_NW_cache_oblivious(a, b, t, past) :
                            past \in GarbageMaps(a, b, t)}

\* s with one non-base character put before position p (0-based).
InsertNonBase(s, p) == SubSeq(s, 1, p) \o <<"-">> \o SubSeq(s, p + 1, Len(s))

HasUnknown(s) == \E k \in 1..Len(s) : s[k] = "N"

(***************************************************************************)
(* C1: for every pair, a call of EditDistance_NW_Rec returns, and the      *)
(* value it returns is phi(0,0) of the recurrence taken on X the longer    *)
(* and Y the shorter sequence.                                             *)
(***************************************************************************)
RecReturnsPhi ==
    (engine = "rec" /\ pc # "idle") =>
        (pc = "done" /\ res = Long(Phi(Longer(A, B), Shorter(A, B), 0, 0)))

(***************************************************************************)
(* C2: EditDistance_NW_iteratif returns the value EditDistance_NW_Rec      *)
(* returns on the same pair.                                               *)
(***************************************************************************)
IteratifEqualsRec ==
    Done("iter") => EngineValues("rec", A, B, 0) = {res}

(***************************************************************************)
(* C3: for every threshold t >= 1, EditDistance_NW_cache_oblivious returns *)
(* the value of the iterative engine, whatever t.                          *)
(***************************************************************************)
ObliviousEqualsIteratif ==
    Done("obliv") => res = Long(EditDistance_NW_iteratif(A, B))

(***************************************************************************)
(* C4: for every budget Z with block width at least 1,                     *)
(* EditDistance_NW_cache_aware returns the value of                        *)
(* EditDistance_NW_iteratif, whatever the block width.                     *)
(***************************************************************************)
AwareEqualsIteratif ==
    Done("aware") => res = Long(EditDistance_NW_iteratif(A, B))

\* C4 witness: two blocks, the last one narrower, all kinds of characters.
AwareEqualsIteratifWitness ==
    /\ Done("aware")
    /\ NbCase(param) = 2
    /\ A = <<"A", "-", "C">>
    /\ B = <<"N", "C", "A">>
    /\ res = Long(3)

(***************************************************************************)
(* C5: each engine returns 0 for distance(A, A). Taken on the sequences A  *)
(* without the unknown base, on which the four engines charge the same     *)
(* costs, and on the calls in which the process is not killed: a call of   *)
(* any engine on (A, A) returns, and the value it returns is 0.            *)
(***************************************************************************)
SelfDistanceZero ==
    (pc # "idle" /\ A = B /\ ~HasUnknown(A))
        ~> ((pc = "done" /\ res = Long(0)) \/ pc = "killed")

(***************************************************************************)
(* C6: for every pair and each engine with a fixed tuning parameter,       *)
(* engine(A, B) = engine(B, A).                                            *)
(***************************************************************************)
SwapLeavesDistance ==
    pc = "done" => EngineValues(engine, B, A, param) = {res}

(***************************************************************************)
(* C7: for each engine, one non-base character put at any position of A or *)
(* of B leaves the distance returned unchanged.                            *)
(***************************************************************************)
NonBaseInsertLeavesDistance ==
    pc = "done" =>
        /\ \A p \in 0..Len(A) : EngineValues(engine, InsertNonBase(A, p), B, param) = {res}
        /\ \A p \in 0..Len(B) : EngineValues(engine, A, InsertNonBase(B, p), param) = {res}

(***************************************************************************)
(* C8: every call of an engine, once made, runs to completion: it          *)
(* eventually returns, unless the process is killed.                       *)
(***************************************************************************)
EveryCallReturns ==
    (pc # "idle") ~> (pc = "done" \/ pc = "killed")

\* The hook calls that report character k of X (axis "X") or of Y (axis "Y").
HookCalls(axis, k) ==
    {n \in 1..Len(hooks) :
        hooks[n].axis = axis /\ (IF axis = "X" THEN hooks[n].i ELSE hooks[n].j) = k}

\* The subproblems phi(i, j) asks for.
PhiNeeds(X, Y, ij) ==
    LET i == ij[1]
        j == ij[2]
    IN  IF i = Len(X) /\ j = Len(Y) THEN {}
        ELSE IF i = Len(X) THEN {<<i, j + 1>>}
        ELSE IF j = Len(Y) THEN {<<i + 1, j>>}
        ELSE IF X[i + 1] \notin ValidBases THEN {<<i + 1, j>>}
        ELSE IF Y[j + 1] \notin ValidBases THEN {<<i, j + 1>>}
        ELSE {<<i + 1, j + 1>>, <<i + 1, j>>, <<i, j + 1>>}

RECURSIVE PhiClosure(_, _, _)
PhiClosure(X, Y, S) ==
    LET T == S \cup UNION {PhiNeeds(X, Y, ij) : ij \in S}
    IN  IF T = S THEN S ELSE PhiClosure(X, Y, T)

\* The subproblems the evaluation of phi(0, 0) reaches.
PhiReached(X, Y) == PhiClosure(X, Y, {<<0, 0>>})

\* The hook calls made while subproblem (i, j) was evaluated.
HookCallsAt(i, j) == {n \in 1..Len(hooks) : hooks[n].i = i /\ hooks[n].j = j}

AccessesInBounds ==
    \A a \in acc : 0 <= a[2] /\ a[2] < a[3]

====
